---- MODULE Spec2Model ----
(***************************************************************************)
(* eris-lavalink: one Lavalink node connection (src/unnamed/part_001, the  *)
(* file required as ./Lavalink) and one Player bound to it                 *)
(* (src/src/Player.js), driven by the single-threaded Node.js scheduler:   *)
(* socket callbacks, reconnect timers and process.nextTick callbacks.      *)
(***************************************************************************)
EXTENDS Integers, Sequences, FiniteSets, TLC

\* ------------------------------------------------------------------ bounds
MaxSocks == 2       \* sockets of the node alive at the same time
MaxTimers == 8      \* reconnect timers armed in one run of the node alone
MaxRetries == 7     \* value the retry counter may reach
MaxLinkTimers == 2  \* reconnect timers armed in one run of node and session
MaxTicks == 2       \* process.nextTick callbacks pending at the same time

\* -------------------------------------------------------- program constants
DefaultTimeout == 5000      \* options.timeout || 5000
RetryCap == 5               \* Math.min(this.retries-1, 5)
RetryBase == 5              \* Math.pow(retries + 5, 2)
MsPerSecond == 1000         \* ... * 1000
CustomTimeout == 1000       \* a caller-supplied options.timeout

VARIABLES
    \* Lavalink node
    ws,                 \* this.ws: id of the current socket, 0 when undefined
    sock,               \* readyState of every socket the node created
    listening,          \* sockets whose 'close' listener is still attached
    connected,          \* this.connected
    draining,           \* this.draining
    retries,            \* this.retries
    reconnectTimeout,   \* this.reconnectTimeout
    reconnectInterval,  \* this.reconnectInterval: a timer id, 0 when null
    timers,             \* pending setTimeout timers: [id, delay]
    stats,              \* this.stats
    \* Player
    playing,            \* this.playing
    paused,             \* this.paused
    track,              \* this.track
    lastTrack,          \* this.lastTrack
    position,           \* this.state.position, -1 when undefined
    timestamp,          \* this.timestamp
    sendQueue,          \* this.sendQueue
    node,               \* this.node: "A" is the node above, "B" another node of the pool
    \* scheduler
    ticks,              \* callbacks queued with process.nextTick, oldest first
    \* observers
    handshake,          \* fate of the voiceUpdate of the latest connect()
    scheduled,          \* number of reconnect timers armed since construction
    destroyed,          \* destroy() has been called
    op,                 \* the operation of the last step
    trace               \* what the last step did, in order

nodeVars == <<ws, sock, listening, connected, draining, retries,
              reconnectTimeout, reconnectInterval, timers, stats>>
playerVars == <<playing, paused, track, lastTrack, position, timestamp, sendQueue,
                node, ticks, handshake>>
obsVars == <<scheduled, destroyed, op, trace>>
vars == <<nodeVars, playerVars, obsVars>>

Socks == 1..MaxSocks
Min(a, b) == IF a < b THEN a ELSE b

\* trace events
Emit(who, sig, arg) == <<"emit", who, sig, arg>>
Sent(to, what, res) == <<"send", to, what, res>>          \* node.send(what) called directly
Queued(to, what, res) == <<"sendEvent", to, what, res>>   \* node.send(what) called by sendEvent
Enqueue(to, what) == <<"enqueue", to, what, "-">>         \* queueEvent(what) called
Op(name, arg) == <<name, arg>>

\* --------------------------------------------------------------- Lavalink

\* new WebSocket(...): the lowest unused socket id; the socket the node
\* referenced before is unreachable once closed.
NewSock(sk) == CHOOSE s \in Socks : sk[s] = "free" /\ \A u \in Socks : sk[u] = "free" => s <= u
Released(sk, w) == IF w # 0 /\ sk[w] = "closed" THEN [sk EXCEPT ![w] = "free"] ELSE sk
CanConnect == \E s \in Socks : Released(sock, ws)[s] = "free"

\* connect(): a socket in CONNECTING state with open/message/close/error listeners.
Lavalink_connect ==
    LET sk == Released(sock, ws)
        n == NewSock(sk)
    IN /\ ws' = n
       /\ sock' = [sk EXCEPT ![n] = "connecting"]
       /\ listening' = listening \cup {n}

\* retryInterval() taking the retry counter itself instead of retries-1
retryIntervalNoOffset(r) ==
    LET x == Min(r, RetryCap)
    IN (x + RetryBase) * (x + RetryBase) * MsPerSecond

\* retryInterval()
retryInterval(r) ==
    LET x == Min(r - 1, RetryCap)
    IN (x + RetryBase) * (x + RetryBase) * MsPerSecond

\* setTimeout(this.reconnect.bind(this), delay): timer ids count the timers armed.
NewTimer(delay) == [id |-> scheduled + 1, delay |-> delay]

\* clearTimeout(handle) leaving the timer armed
ClearedNothing(ts, handle) == ts

\* clearTimeout(handle)
Cleared(ts, handle) == {t \in ts : t.id # handle}

\* disconnected() arming a timer whether or not one is pending
NoTimerHandleIgnored == TRUE

\* the test `!this.reconnectInterval` of disconnected()
NoTimerHandle == reconnectInterval = 0

\* reconnect(), run by a reconnect timer
reconnect(t) ==
    /\ t \in timers
    /\ retries < MaxRetries
    /\ CanConnect
    /\ LET nt == NewTimer(retryInterval(retries))
       IN /\ timers' = (timers \ {t}) \cup {nt}
          /\ reconnectInterval' = nt.id
          /\ scheduled' = scheduled + 1
    /\ retries' = retries + 1
    /\ Lavalink_connect
    /\ op' = Op("reconnect", "-")
    /\ trace' = <<>>
    /\ UNCHANGED <<connected, draining, reconnectTimeout, stats, destroyed>>
    /\ UNCHANGED playerVars

\* destroy()
destroy ==
    /\ IF ws # 0
       THEN /\ listening' = listening \ {ws}
            /\ sock' = [sock EXCEPT ![ws] =
                          IF @ \in {"connecting", "open"} THEN "closing" ELSE @]
       ELSE UNCHANGED <<listening, sock>>
    /\ destroyed' = TRUE
    /\ op' = Op("destroy", "-")
    /\ trace' = <<>>
    /\ UNCHANGED <<ws, connected, draining, retries, reconnectTimeout,
                   reconnectInterval, timers, stats, scheduled>>
    /\ UNCHANGED playerVars

\* ready(), the 'open' listener of socket s
ready(s) ==
    /\ sock[s] = "connecting"
    /\ sock' = [sock EXCEPT ![s] = "open"]
    /\ IF reconnectInterval # 0
       THEN /\ timers' = Cleared(timers, reconnectInterval)
            /\ reconnectInterval' = 0
       ELSE UNCHANGED <<timers, reconnectInterval>>
    /\ connected' = TRUE
    /\ retries' = 0
    /\ op' = Op("ready", "-")
    /\ trace' = <<Emit("node", "ready", "-")>>
    /\ UNCHANGED <<ws, listening, draining, reconnectTimeout, stats, scheduled, destroyed>>
    /\ UNCHANGED playerVars

\* disconnected(), the 'close' listener
disconnected ==
    /\ connected' = FALSE
    /\ ws' = 0
    /\ IF NoTimerHandle
       THEN LET nt == NewTimer(reconnectTimeout)
            IN /\ timers' = timers \cup {nt}
               /\ reconnectInterval' = nt.id
               /\ scheduled' = scheduled + 1
       ELSE UNCHANGED <<timers, reconnectInterval, scheduled>>

\* socket s closes: an 'error' event may precede 'close'; 'close' runs
\* disconnected() when the listener is still attached.
SockClose(s, err) ==
    /\ sock[s] \in {"connecting", "open", "closing"}
    /\ sock[s] = "connecting" => err
    /\ listening' = listening \ {s}
    /\ IF s \in listening
       THEN /\ disconnected
            /\ sock' = [sock EXCEPT ![s] = "free"]
            /\ trace' = (IF err THEN <<Emit("node", "error", "ws")>> ELSE <<>>)
                        \o (IF NoTimerHandle THEN <<Emit("node", "disconnect", "-")>> ELSE <<>>)
       ELSE /\ sock' = [sock EXCEPT ![s] = IF ws = s THEN "closed" ELSE "free"]
            /\ trace' = (IF err THEN <<Emit("node", "error", "ws")>> ELSE <<>>)
            /\ UNCHANGED <<connected, ws, timers, reconnectInterval, scheduled>>
    /\ op' = Op("close", IF s \in listening THEN "handled" ELSE "detached")
    /\ UNCHANGED <<draining, retries, reconnectTimeout, stats, destroyed>>
    /\ UNCHANGED playerVars

\* send(data) reporting a missing socket with an error signal
sendReporting(ok, lib) ==
    IF ws = 0 \/ ~ok THEN "error"
    ELSE IF sock[ws] = "open" THEN "written"
    ELSE IF sock[ws] = "connecting" THEN "threw"
    ELSE lib

\* send(data): the outcome of one call.  ok: JSON.stringify succeeds;
\* lib: what ws.send does on a socket that is closing or closed (it throws in
\* ws <= 6 and discards the frame in later versions); on a connecting socket
\* it throws in every version.
send(ok, lib) ==
    IF ws = 0 THEN "dropped"
    ELSE IF ~ok THEN "error"
    ELSE IF sock[ws] = "open" THEN "written"
    ELSE IF sock[ws] = "connecting" THEN "threw"
    ELSE lib

SendTrace(what, res) ==
    <<Sent("A", what, res)>>
    \o (IF res = "error" THEN <<Emit("node", "error", "stringify")>> ELSE <<>>)

\* send(data) called from outside the session (the manager, the application)
Send(ok, lib) ==
    /\ op' = Op("send", IF ok THEN "plain" ELSE "cyclic")
    /\ trace' = SendTrace("data", send(ok, lib))
    /\ UNCHANGED <<nodeVars, scheduled, destroyed>>
    /\ UNCHANGED playerVars

\* onMessage(message) returning after it stored a stats payload
onMessageStatsSilent(s, raw) ==
    /\ sock[s] = "open"
    /\ stats' = IF raw = "stats" THEN "stats" ELSE stats
    /\ trace' = CASE raw = "malformed" -> <<Emit("node", "error", "parse")>>
                  [] raw = "null" -> <<<<"throw", "node", "TypeError", "-">>>>
                  [] raw = "stats" -> <<>>
                  [] OTHER -> <<Emit("node", "message", raw)>>
    /\ op' = Op("message", raw)
    /\ UNCHANGED <<ws, sock, listening, connected, draining, retries, reconnectTimeout,
                   reconnectInterval, timers, scheduled, destroyed>>
    /\ UNCHANGED playerVars

\* onMessage(message), the 'message' listener of an open socket.  raw is the
\* text received: not JSON ("malformed"), the JSON text null, an object whose
\* op is "stats", or any other object.
onMessage(s, raw) ==
    /\ sock[s] = "open"
    /\ stats' = IF raw = "stats" THEN "stats" ELSE stats
    /\ trace' = CASE raw = "malformed" -> <<Emit("node", "error", "parse")>>
                  [] raw = "null" -> <<<<"throw", "node", "TypeError", "-">>>>
                  [] OTHER -> <<Emit("node", "message", raw)>>
    /\ op' = Op("message", raw)
    /\ UNCHANGED <<ws, sock, listening, connected, draining, retries, reconnectTimeout,
                   reconnectInterval, timers, scheduled, destroyed>>
    /\ UNCHANGED playerVars

\* node.draining = flag, set by the application
SetDraining(b) ==
    /\ draining # b
    /\ draining' = b
    /\ op' = Op("draining", IF b THEN "true" ELSE "false")
    /\ trace' = <<>>
    /\ UNCHANGED <<ws, sock, listening, connected, retries, reconnectTimeout,
                   reconnectInterval, timers, stats, scheduled, destroyed>>
    /\ UNCHANGED playerVars

\* ----------------------------------------------------------------- Player
Tracks == {"t1", "t2"}
\* state.position values the node reports
Positions == {0, 1}
\* Date.now() readings, in order
Clock == {0, 1}

\* The session while one of its methods runs: its fields, the nextTick queue,
\* the events of the step so far, and whether an exception is propagating.
Cur ==
    [playing |-> playing, paused |-> paused, track |-> track, lastTrack |-> lastTrack,
     position |-> position, timestamp |-> timestamp, sendQueue |-> sendQueue,
     node |-> node, ticks |-> ticks, handshake |-> handshake,
     trace |-> <<>>, thrown |-> FALSE]

\* this.node.send(data): node "A" is the Lavalink node of this module, node "B"
\* a connected node of the pool.
nodeSend(m, what, lib) == IF m.node = "A" THEN send(TRUE, lib) ELSE "written"

Log(m, e) == [m EXCEPT !.trace = Append(@, e)]
NextTick(m, cb) == [m EXCEPT !.ticks = Append(@, cb)]
Fate(m, what, res) == IF what = "voiceUpdate" THEN [m EXCEPT !.handshake = res] ELSE m

\* sendEvent(data): an async function; an exception of node.send rejects the
\* returned promise, which no caller awaits, and skips the nextTick.
sendEvent(m, what, lib) ==
    LET res == nodeSend(m, what, lib)
        m1 == Fate(Log(m, Queued(m.node, what, res)), what, res)
    IN IF res = "threw" THEN m1 ELSE NextTick(m1, "checkEventQueue")

\* queueEvent(data) with its test inverted: queue when nothing is queued
queueEventInverted(m, what, lib) ==
    LET m1 == Log(m, Enqueue(m.node, what))
    IN IF Len(m1.sendQueue) = 0
       THEN [m1 EXCEPT !.sendQueue = Append(@, what)]
       ELSE sendEvent(m1, what, lib)

\* queueEvent(data)
queueEvent(m, what, lib) ==
    LET m1 == Log(m, Enqueue(m.node, what))
    IN IF Len(m1.sendQueue) > 0
       THEN [m1 EXCEPT !.sendQueue = Append(@, what)]
       ELSE sendEvent(m1, what, lib)

\* checkEventQueue()
checkEventQueue(m, lib) ==
    IF Len(m.sendQueue) > 0
    THEN sendEvent([m EXCEPT !.sendQueue = Tail(@)], Head(m.sendQueue), lib)
    ELSE m

\* a method that hands a payload straight to node.send: an exception of
\* node.send propagates to the caller
direct(m, what, lib) ==
    LET res == nodeSend(m, what, lib)
        m1 == Log(m, Sent(m.node, what, res))
    IN IF res = "threw" THEN [m1 EXCEPT !.thrown = TRUE] ELSE m1

\* connect(data)
Player_connect(m, lib) ==
    LET m1 == Log(m, Emit("player", "connect", "-"))
        m2 == queueEvent([m1 EXCEPT !.handshake = "pending"], "voiceUpdate", lib)
    IN NextTick(m2, "ready")

\* stop()
stop(m, lib) ==
    LET m1 == queueEvent(m, "stop", lib)
    IN [m1 EXCEPT !.playing = FALSE, !.lastTrack = m1.track, !.track = "null"]

\* setPause(pause) that leaves this.playing alone
setPauseFlagOnly(m, pause, lib) ==
    LET m1 == direct(m, IF pause THEN "pause:true" ELSE "pause:false", lib)
    IN IF m1.thrown THEN m1 ELSE [m1 EXCEPT !.paused = pause]

\* setPause(pause)
setPause(m, pause, lib) ==
    LET m1 == direct(m, IF pause THEN "pause:true" ELSE "pause:false", lib)
    IN IF m1.thrown THEN m1 ELSE [m1 EXCEPT !.paused = pause, !.playing = ~pause]

\* pause() without its test of this.playing
pauseUnguarded(m, lib) == setPause(m, TRUE, lib)

\* pause()
pause(m, lib) == IF m.playing THEN setPause(m, TRUE, lib) ELSE m

\* resume()
resume(m, lib) == IF ~m.playing /\ m.paused THEN setPause(m, FALSE, lib) ELSE m

\* _disconnect()
disconnect_(m, lib) ==
    LET m1 == [m EXCEPT !.playing = FALSE]
        m2 == IF m1.paused THEN resume(m1, lib) ELSE m1
    IN IF m2.thrown THEN m2 ELSE stop(queueEvent(m2, "destroy", lib), lib)

\* disconnect(msg)
disconnect(m, lib) ==
    LET m1 == disconnect_(m, lib)
    IN IF m1.thrown THEN m1 ELSE Log(m1, Emit("player", "disconnect", "msg"))

\* PlayerManager.switchNode(player): the session is bound to another node of
\* the pool, which gets the voice handshake; nothing changes when the pool
\* has no other node to offer.
switchNode(m, found, lib) ==
    LET m1 == Log(m, <<"call", "manager", "switchNode", IF found THEN "found" ELSE "none">>)
    IN IF found THEN Player_connect([m1 EXCEPT !.node = "B"], lib) ELSE m1

\* play() that does not look at node.draining
DrainingIgnored(m) == FALSE

\* node.draining of the bound node
Draining(m) == m.node = "A" /\ draining

\* play(track, options): the options only add fields to the play payload;
\* now is the reading of Date.now()
play(m, t, now, found, lib) ==
    LET m1 == [m EXCEPT !.lastTrack = m.track, !.track = t]
    IN IF Draining(m1)
       THEN switchNode([m1 EXCEPT !.position = 0], found, lib)
       ELSE LET m2 == queueEvent(m1, "play:" \o t, lib)
            IN [m2 EXCEPT !.playing = ~m2.paused, !.timestamp = now]

\* onTrackEnd(message) that clears the track whatever the reason
onTrackEndClearing(m, reason) ==
    Log([m EXCEPT !.playing = FALSE, !.lastTrack = m.track, !.track = "null"],
        Emit("player", "end", reason))

\* onTrackEnd(message)
onTrackEnd(m, reason) ==
    LET m1 == IF reason # "REPLACED"
              THEN [m EXCEPT !.playing = FALSE, !.lastTrack = m.track, !.track = "null"]
              ELSE m
    IN Log(m1, Emit("player", "end", reason))

\* onTrackStuck(message) emitting 'end' inside the handler
onTrackStuckSync(m, lib) == Log(stop(m, lib), Emit("player", "end", "STUCK"))

\* onTrackStuck(message)
onTrackStuck(m, lib) == NextTick(stop(m, lib), "end")

\* the step of a session method or callback that leaves the session as m
Done(m, name, arg) ==
    /\ Len(m.ticks) <= MaxTicks
    /\ playing' = m.playing
    /\ paused' = m.paused
    /\ track' = m.track
    /\ lastTrack' = m.lastTrack
    /\ position' = m.position
    /\ timestamp' = m.timestamp
    /\ sendQueue' = m.sendQueue
    /\ node' = m.node
    /\ ticks' = m.ticks
    /\ handshake' = m.handshake
    /\ trace' = (IF m.thrown THEN Append(m.trace, <<"throw", "player", name, "-">>) ELSE m.trace)
    /\ op' = Op(name, arg)
    /\ UNCHANGED <<nodeVars, scheduled, destroyed>>

\* what ws.send may do on the current socket: the choice exists only on a
\* socket that is closing or closed
Libs == IF ws # 0 /\ sock[ws] \in {"closing", "closed"} THEN {"threw", "discarded"} ELSE {"threw"}
\* whether the pool has another node to offer: asked only by play() on a draining node
Pool == IF node = "A" /\ draining THEN BOOLEAN ELSE {FALSE}
\* socket, timer and message callbacks start only after every process.nextTick
\* callback of the turn before has run
Idle == ticks = <<>>

Connect == \E lib \in Libs : Done(Player_connect(Cur, lib), "connect", "-")
Disconnect == \E lib \in Libs : Done(disconnect(Cur, lib), "disconnect", "-")
Play == \E t \in Tracks, now \in {c \in Clock : c >= timestamp}, found \in Pool, lib \in Libs :
            Done(play(Cur, t, now, found, lib), "play", t)
Stop == \E lib \in Libs : Done(stop(Cur, lib), "stop", "-")
SetPause == \E b \in BOOLEAN, lib \in Libs :
            Done(setPause(Cur, b, lib), "setPause", IF b THEN "true" ELSE "false")
Pause == \E lib \in Libs : Done(pause(Cur, lib), "pause", "-")
Resume == \E lib \in Libs : Done(resume(Cur, lib), "resume", "-")
\* seek(position), setVolume(volume), setEqualizer(bands), destroy()
Immediate == \E what \in {"seek", "volume", "equalizer", "destroy"}, lib \in Libs :
            Done(direct(Cur, what, lib), "immediate", what)
\* stateUpdate(state)
StateUpdate == \E p \in Positions :
            /\ Idle
            /\ p # position
            /\ Done([Cur EXCEPT !.position = p], "stateUpdate", "-")
OnTrackEnd == \E reason \in {"REPLACED", "FINISHED"} :
            Idle /\ Done(onTrackEnd(Cur, reason), "onTrackEnd", reason)
\* onTrackException(message)
OnTrackException == Idle /\ Done(Log(Cur, Emit("player", "error", "exception")), "onTrackException", "-")
OnTrackStuck == \E lib \in Libs : Idle /\ Done(onTrackStuck(Cur, lib), "onTrackStuck", "-")

\* the scheduler runs the oldest process.nextTick callback
Tick ==
    /\ ticks # <<>>
    /\ LET m == [Cur EXCEPT !.ticks = Tail(ticks)]
           cb == Head(ticks)
       IN \E lib \in Libs :
            Done(CASE cb = "checkEventQueue" -> checkEventQueue(m, lib)
                   [] cb = "ready" -> Log(m, Emit("player", "ready", "-"))
                   [] cb = "end" -> Log(m, Emit("player", "end", "STUCK")),
                 "tick", cb)

\* new Lavalink(options): the constructor ends in connect()
InitWith(timeout) ==
    /\ ws = 1
    /\ sock = [s \in Socks |-> IF s = 1 THEN "connecting" ELSE "free"]
    /\ listening = {1}
    /\ connected = FALSE
    /\ draining = FALSE
    /\ retries = 0
    /\ reconnectTimeout = (IF timeout = 0 THEN DefaultTimeout ELSE timeout)
    /\ reconnectInterval = 0
    /\ timers = {}
    /\ stats = "initial"
    /\ playing = FALSE
    /\ paused = FALSE
    /\ track = "null"
    /\ lastTrack = "undefined"
    /\ position = -1
    /\ timestamp = 0
    /\ sendQueue = <<>>
    /\ node = "A"
    /\ ticks = <<>>
    /\ handshake = "none"
    /\ scheduled = 0
    /\ destroyed = FALSE
    /\ op = Op("new", "-")
    /\ trace = <<>>

\* options.timeout absent
Init == InitWith(0)
\* options.timeout absent or given
InitNode == \E timeout \in {0, CustomTimeout} : InitWith(timeout)

\* the node alone: every callback and method of Lavalink
NodeTimer == \E t \in timers : scheduled < MaxTimers /\ reconnect(t)
NodeOpen == \E s \in Socks : Idle /\ ready(s)
NodeClose == \E s \in Socks, err \in BOOLEAN :
                /\ (s \in listening /\ NoTimerHandle) => scheduled < MaxTimers
                /\ SockClose(s, err)
NodeSend == \E ok \in BOOLEAN, lib \in Libs : Send(ok, lib)
NodeMessage == \E s \in Socks, raw \in {"malformed", "null", "stats", "other"} : onMessage(s, raw)
NodeDraining == \E b \in BOOLEAN : SetDraining(b)

NextNode ==
    \/ NodeTimer
    \/ NodeOpen
    \/ NodeClose
    \/ destroy
    \/ NodeSend
    \/ NodeMessage
    \/ NodeDraining

SpecNode == InitNode /\ [][NextNode]_vars

\* the session and the connection of its node
LinkTimer == \E t \in timers : Idle /\ scheduled < MaxLinkTimers /\ reconnect(t)
LinkClose == \E s \in Socks, err \in BOOLEAN :
                /\ Idle
                /\ (s \in listening /\ NoTimerHandle) => scheduled < MaxLinkTimers
                /\ SockClose(s, err)

Next ==
    \/ Connect \/ Disconnect \/ Play \/ Stop \/ SetPause \/ Pause \/ Resume
    \/ Immediate \/ StateUpdate \/ OnTrackEnd \/ OnTrackException \/ OnTrackStuck
    \/ Tick
    \/ LinkTimer \/ NodeOpen \/ LinkClose \/ NodeDraining

Spec == Init /\ [][Next]_vars

\* the node whose sockets never open
NextFail ==
    \/ NodeTimer
    \/ NodeClose
    \/ destroy
    \/ NodeSend
    \/ NodeDraining

SpecFail == InitNode /\ [][NextFail]_vars

\* A session driven by the playback operations alone (play, stop, pause,
\* resume and the track-end and track-stuck reports), on a node whose socket
\* opens, closes and reconnects.
NextPlayback ==
    \/ Play \/ Stop \/ Pause \/ Resume
    \/ OnTrackEnd \/ OnTrackStuck \/ Tick
    \/ LinkTimer \/ NodeOpen \/ LinkClose

SpecPlayback == Init /\ [][NextPlayback]_vars

\* ------------------------------------------------------------------ claims
SocketOpen == ws # 0 /\ sock[ws] = "open"
Square(x) == x * x

\* C4: at most one reconnect timer is pending, and it is the one the node
\* holds in reconnectInterval.
C4_OneReconnectTimer ==
    /\ Cardinality(timers) <= 1
    /\ \A t \in timers : t.id = reconnectInterval

\* a socket closes while the timer armed by reconnect() is pending
C4_Witness ==
    /\ op = Op("close", "handled")
    /\ scheduled >= 2
    /\ Cardinality(timers) = 1

\* C5 as stated: the k-th reconnect timer of a node whose sockets never open
\* has delay (min(k-1,5)+5)^2 * 1000 ms (25000, 36000, 49000, ...).
C5_DelaysAsStated ==
    \A t \in timers : t.delay = Square(Min(t.id - 1, 5) + 5) * 1000

\* C5 amended: the first reconnect timer of a node whose sockets never open
\* has the configured reconnect timeout as delay (5000 ms by default), and the
\* k-th one, k >= 2, has delay (min(k-3,5)+5)^2 * 1000 ms (16000, 25000,
\* 36000, 49000, ... up to 100000).
C5_Delays ==
    \A t \in timers :
        t.delay = IF t.id = 1 THEN reconnectTimeout
                  ELSE Square(Min(t.id - 3, 5) + 5) * 1000

\* the third timer of a node built with the default timeout is pending
C5_Witness ==
    /\ reconnectTimeout = 5000
    /\ \E t \in timers : t.id = 3 /\ t.delay = 25000

\* C6: once destroy() has been called the node starts no connection attempt:
\* no reconnect timer runs reconnect().
C6_NoReconnectAfterDestroy == ~(destroyed /\ op = Op("reconnect", "-"))

\* C7 as stated: send() on a node whose socket is not open writes nothing,
\* emits an error signal, throws nothing and buffers nothing.
C7_SendAsStated ==
    [][(op'[1] = "send" /\ ~SocketOpen) =>
        /\ \A i \in DOMAIN trace' : trace'[i][4] \notin {"written", "threw"}
        /\ \E i \in DOMAIN trace' : trace'[i][1] = "emit" /\ trace'[i][3] = "error"
        /\ UNCHANGED <<nodeVars, sendQueue, ticks>>]_vars

\* C7 amended: send() on a node whose socket is not open writes nothing and
\* buffers nothing; with no socket at all it returns without any signal or
\* exception; with a socket that is not open it emits an error signal exactly
\* when the payload cannot be serialised, and otherwise calls ws.send, whose
\* exception (always raised on a connecting socket) propagates.
C7_Send ==
    [][(op'[1] = "send" /\ ~SocketOpen) =>
        /\ \A i \in DOMAIN trace' : trace'[i][4] # "written"
        /\ UNCHANGED <<nodeVars, sendQueue, ticks>>
        /\ ws = 0 => trace' = <<Sent("A", "data", "dropped")>>
        /\ (ws # 0 /\ op'[2] = "cyclic") =>
              trace' = <<Sent("A", "data", "error"), Emit("node", "error", "stringify")>>
        /\ (ws # 0 /\ op'[2] = "plain") =>
              /\ trace' \in {<<Sent("A", "data", "threw")>>, <<Sent("A", "data", "discarded")>>}
              /\ sock[ws] = "connecting" => trace' = <<Sent("A", "data", "threw")>>]_vars

\* send() was called while the node had no socket
C7_Witness ==
    /\ op[1] = "send"
    /\ ws = 0
    /\ trace = <<Sent("A", "data", "dropped")>>

\* payloads of the events of one kind in a step's trace, in order
Payloads(tr, kind) ==
    LET f == SelectSeq(tr, LAMBDA e : e[1] = kind)
    IN [i \in DOMAIN f |-> f[i][3]]
IsPlay(what) == \E t \in Tracks : what = "play:" \o t
Pending(cb) == \E i \in DOMAIN ticks : ticks[i] = cb

\* C1: in every step the payloads handed to node.send by sendEvent are, in
\* order, the head of what was pending followed by what the step enqueued, and
\* the rest is what stays pending (so the whole run hands payloads over in the
\* order of their queueEvent calls, none twice); whatever stays pending has a
\* checkEventQueue turn scheduled to send it.
C1_FifoDelivery ==
    [][/\ sendQueue \o Payloads(trace', "enqueue") = Payloads(trace', "sendEvent") \o sendQueue'
       /\ sendQueue' # <<>> => \E i \in DOMAIN ticks' : ticks'[i] = "checkEventQueue"]_vars

\* disconnect() enqueued destroy and stop, and both were handed over in that order
C1_Witness ==
    /\ op = Op("disconnect", "-")
    /\ Payloads(trace, "enqueue") = <<"destroy", "stop">>
    /\ Payloads(trace, "sendEvent") = <<"destroy", "stop">>

\* C2: at most one queued command is in flight: a command handed to the node
\* whose checkEventQueue turn has not run yet.
C2_OneInFlight ==
    Cardinality({i \in DOMAIN ticks : ticks[i] = "checkEventQueue"}) <= 1

\* C3: a play command is written to the socket of the node only if the
\* voiceUpdate of the connect() before it was written too.
C3_HandshakeBeforePlay ==
    \A i \in DOMAIN trace :
        (trace[i][1] = "sendEvent" /\ trace[i][2] = "A" /\ IsPlay(trace[i][3])
            /\ trace[i][4] = "written")
        => handshake \notin {"pending", "dropped", "threw"}

\* C8: play() on a session whose node is draining hands nothing to that node,
\* sets the cached position to 0, calls switchNode, and leaves playing and
\* timestamp as they were.
C8_PlayOnDraining ==
    [][(op'[1] = "play" /\ node = "A" /\ draining) =>
        /\ \A i \in DOMAIN trace' :
              ~(trace'[i][1] \in {"enqueue", "sendEvent", "send"} /\ trace'[i][2] = "A")
        /\ position' = 0
        /\ Len(trace') >= 1 /\ trace'[1][1] = "call" /\ trace'[1][3] = "switchNode"
        /\ playing' = playing
        /\ timestamp' = timestamp]_vars

\* play() ran on a draining node while the session was playing an older track
C8_Witness ==
    /\ op[1] = "play"
    /\ Len(trace) >= 1 /\ trace[1][1] = "call"
    /\ playing
    /\ timestamp = 0
    /\ lastTrack \in Tracks

\* C9: onTrackStuck hands the stop command to the node inside the handler and
\* emits nothing there; 'end' is the last callback it leaves with
\* process.nextTick, and that callback is what emits 'end'.
C9_StuckEndDeferred ==
    /\ op[1] = "onTrackStuck" =>
          /\ \E i \in DOMAIN trace : trace[i][1] = "sendEvent" /\ trace[i][3] = "stop"
          /\ \A i \in DOMAIN trace : trace[i][1] # "emit"
          /\ ticks # <<>> /\ ticks[Len(ticks)] = "end"
    /\ op = Op("tick", "end") => trace = <<Emit("player", "end", "STUCK")>>

\* a track got stuck while it was playing: stop is out, 'end' is still to come
C9_Witness ==
    /\ op[1] = "onTrackStuck"
    /\ lastTrack \in Tracks
    /\ Pending("end")

\* C10: onTrackEnd leaves playing, track and lastTrack alone when the reason
\* is REPLACED and otherwise clears playing and moves track to lastTrack; it
\* emits 'end' once either way.
C10_TrackEnd ==
    [][op'[1] = "onTrackEnd" =>
        /\ trace' = <<Emit("player", "end", op'[2])>>
        /\ IF op'[2] = "REPLACED"
           THEN playing' = playing /\ track' = track /\ lastTrack' = lastTrack
           ELSE playing' = FALSE /\ lastTrack' = track /\ track' = "null"]_vars

\* the track that was playing ended for another reason than REPLACED
C10_Witness ==
    /\ op = Op("onTrackEnd", "FINISHED")
    /\ lastTrack \in Tracks
    /\ track = "null"
    /\ ~playing

\* C11: when the node's ready signal fires, the retry counter is 0 and no
\* reconnect timer is pending; afterwards a reconnect timer is armed only by a
\* socket close, and reconnect() runs only off a pending timer, so no
\* reconnect attempt is made before a close has been observed.
C11_QuietAfterReady ==
    [][/\ op'[1] = "ready" =>
             /\ retries' = 0
             /\ timers' = {}
             /\ reconnectInterval' = 0
       /\ (timers = {} /\ timers' # {}) => op'[1] = "close"
       /\ timers = {} => op'[1] # "reconnect"]_vars

C11_Witness ==
    /\ op = Op("ready", "-")
    /\ scheduled >= 2
    /\ retries = 0
    /\ timers = {}

\* events of a step's trace that are "message" signals of the node
Messages(tr) == SelectSeq(tr, LAMBDA e : e[1] = "emit" /\ e[2] = "node" /\ e[3] = "message")

\* C12 as stated: a well-formed payload whose op is "stats" replaces the stats
\* snapshot and emits no "message" signal; every other well-formed payload
\* emits exactly one "message" signal and leaves the snapshot unchanged.
C12_StatsNotForwarded ==
    [][(op'[1] = "message" /\ op'[2] # "malformed") =>
          IF op'[2] = "stats"
          THEN stats' = "stats" /\ Messages(trace') = <<>>
          ELSE stats' = stats /\ Messages(trace') = <<Emit("node", "message", op'[2])>>]_vars

\* C12: a payload object whose op is "stats" replaces the stats snapshot and is
\* emitted as one "message" signal too; every other payload object emits
\* exactly one "message" signal and leaves the snapshot unchanged; the JSON
\* text null raises a TypeError out of onMessage, which emits nothing and
\* leaves the snapshot unchanged.
C12_Message ==
    [][op'[1] = "message" =>
          CASE op'[2] = "stats" ->
                 /\ stats' = "stats"
                 /\ trace' = <<Emit("node", "message", "stats")>>
            [] op'[2] = "other" ->
                 /\ stats' = stats
                 /\ trace' = <<Emit("node", "message", "other")>>
            [] op'[2] = "null" ->
                 /\ stats' = stats
                 /\ trace' = <<<<"throw", "node", "TypeError", "-">>>>
            [] OTHER ->
                 /\ stats' = stats
                 /\ Messages(trace') = <<>>]_vars

\* a stats payload arrived: the snapshot is replaced and the payload was emitted
C12_Witness ==
    /\ op = Op("message", "stats")
    /\ stats = "stats"
    /\ Messages(trace) = <<Emit("node", "message", "stats")>>

\* commands of a step's trace that were written to a node's socket
Written(tr) ==
    SelectSeq(tr, LAMBDA e : e[1] \in {"send", "sendEvent"} /\ e[4] = "written")

\* disconnect() ran to its end in the last step
DisconnectReturned ==
    /\ op = Op("disconnect", "-")
    /\ trace # <<>>
    /\ trace[Len(trace)] = Emit("player", "disconnect", "msg")

\* C13: once disconnect() has returned the session is terminal: no later
\* operation on it sends a command to the node (stated for the operation
\* that follows disconnect(), which is a later one).
C13_TerminalAfterDisconnect ==
    [][DisconnectReturned => Written(trace') = <<>>]_vars

\* payloads a step handed to node.send, in order
Commands(tr) ==
    LET f == SelectSeq(tr, LAMBDA e : e[1] \in {"send", "sendEvent"})
    IN [i \in DOMAIN f |-> f[i][3]]

\* C14: disconnect(reason), from any session state, issues a pause command
\* with pause=false only if the session was paused, then destroy, then stop,
\* and after all of them emits the disconnect signal with the reason; on
\* return playing is false, paused is false and the track is null.
C14_DisconnectOrder ==
    [][op'[1] = "disconnect" =>
          /\ Commands(trace') = (IF paused THEN <<"pause:false">> ELSE <<>>) \o <<"destroy", "stop">>
          /\ trace'[Len(trace')] = Emit("player", "disconnect", "msg")
          /\ Cardinality({i \in DOMAIN trace' : trace'[i][1] = "emit"}) = 1
          /\ ~playing' /\ ~paused' /\ track' = "null"]_vars

\* C15: in every reachable state pause() on a paused session and resume() on
\* a session that is not paused send nothing and change nothing, and a second
\* pause() (resume()) right after one that returned adds nothing to the first:
\* no command, no change of a flag.
C15_PauseResumeIdempotent ==
    \A lib \in Libs :
        LET p == pause(Cur, lib)
            r == resume(Cur, lib)
        IN /\ paused => p = Cur
           /\ ~paused => r = Cur
           /\ ~p.thrown => pause(p, lib) = p
           /\ ~r.thrown => resume(r, lib) = r

\* pause() was called on a paused session and did nothing
C15_Witness ==
    /\ op = Op("pause", "-")
    /\ paused
    /\ trace = <<>>

\* C16: whenever the session emits ready after connect(), the voiceUpdate of
\* that connect() has been written to the socket of the bound node, also when
\* the node was disconnected or reconnecting when connect() was called.  (The
\* ready turn with no other ready turn behind it belongs to the latest
\* connect(), whose voiceUpdate handshake records.)
C16_ReadyAfterHandshake ==
    (op = Op("tick", "ready") /\ ~Pending("ready")) => handshake = "written"

\* C17: the pending queue sendQueue is empty in every reachable state: each
\* payload given to queueEvent is handed to sendEvent in the same call, and a
\* checkEventQueue turn, which enqueues nothing, hands nothing over.
C17_QueueAlwaysEmpty ==
    /\ sendQueue = <<>>
    /\ Payloads(trace, "enqueue") = Payloads(trace, "sendEvent")

\* a checkEventQueue turn ran after a queued command and found nothing to send
C17_Witness ==
    /\ op = Op("tick", "checkEventQueue")
    /\ trace = <<>>
    /\ sendQueue = <<>>

\* C18: in every reachable session state the flags playing and paused are
\* never both true.
C18_NotPlayingAndPaused == ~(playing /\ paused)

\* a playing session was paused: setPause(true) went through and cleared playing
C18_Witness ==
    /\ op[1] \in {"pause", "setPause"}
    /\ Commands(trace) = <<"pause:true">>
    /\ track # "null"
    /\ paused
    /\ ~playing

\* C19: in every reachable session state playing = true implies that the
\* session has a current track, for any sequence of play, pause, resume, stop,
\* onTrackEnd and onTrackStuck.
C19_PlayingHasTrack == playing => track # "null"

\* C20: under any interleaving of reconnect timers with the open and close
\* callbacks of sockets of earlier connect() calls (destroy() aside), connected
\* is true exactly when the current socket exists and is open, and the open or
\* close callback of a socket that is not the current one changes neither
\* connected nor the current socket reference.
C20_ConnectedIffCurrentOpen ==
    [][~destroyed' =>
          /\ connected' <=> (ws' # 0 /\ sock'[ws'] = "open")
          /\ \A s \in Socks :
                (ws # 0 /\ s # ws /\ sock'[s] # sock[s] /\ op'[1] \in {"ready", "close"})
                => (connected' = connected /\ ws' = ws)]_vars
====
